---------------------------- MODULE Spec2Model ----------------------------
(***************************************************************************)
(* A model of optool.py, the OpenPrescribing command-line tool: code       *)
(* resolution, name lookup, spending collection, population collection     *)
(* and the two rankings, with the remote API as a nondeterministic         *)
(* environment.  Strings are TLA+ strings, JSON objects are records whose  *)
(* DOMAIN is the set of keys the object carries, Python lists are          *)
(* sequences and Python dicts are functions on their key set.              *)
(***************************************************************************)
EXTENDS Integers, Sequences, FiniteSets, TLC

VARIABLES
    pc,               \* position of the run
    bnf_code,         \* args.bnf_code
    weighted,         \* args.weighted
    candidates,       \* prefix lengths extract_chemical_code has still to try
    chemical_code,    \* main's chemical_code
    calls,            \* the external calls issued so far, in order
    spending_data,    \* date -> list of entries
    org_ids,          \* first argument of get_icb_list_sizes
    dates,            \* second argument of get_icb_list_sizes
    unique_months,    \* months get_icb_list_sizes has still to query
    list_sizes,       \* date -> (org_id -> total_list_size)
    population_api,   \* year-month -> what the org_details endpoint answers for it
    top_prescribers,  \* the ranking: list of <<date, org_name>>
    stdout,           \* lines printed to standard output
    stderr,           \* lines printed to standard error
    exit_status       \* exit status of the process, None while it runs

vars == <<pc, bnf_code, weighted, candidates, chemical_code, calls,
          spending_data, org_ids, dates, unique_months, list_sizes, population_api,
          top_prescribers, stdout, stderr, exit_status>>

-----------------------------------------------------------------------------
(* Bounds of the model *)

\* most records in a spending response of a full run
MaxRecs == 2
\* most entries, over all dates, of a spending mapping given to a ranking
MaxEntries == 3
\* largest item count
MaxItems == 2
\* largest total_list_size
MaxSize == 2
\* most objects in a bnf_code response
MaxBnfItems == 2

-----------------------------------------------------------------------------
(* Python values *)

None == "None"
EmptyDict == [k \in {} |-> 0]

\* dict.get(key, default)
Get(d, key, default) == IF key \in DOMAIN d THEN d[key] ELSE default

\* s[:n]
Prefix(s, n) == SubSeq(s, 1, IF n < Len(s) THEN n ELSE Len(s))

\* s.startswith(p)
StartsWith(s, p) == Len(p) <= Len(s) /\ SubSeq(s, 1, Len(p)) = p

\* code point of a character of a date string
Ord(c) ==
    CASE c = "-" -> 45 [] c = "0" -> 48 [] c = "1" -> 49 [] c = "2" -> 50
      [] c = "3" -> 51 [] c = "4" -> 52 [] c = "5" -> 53 [] c = "6" -> 54
      [] c = "7" -> 55 [] c = "8" -> 56 [] c = "9" -> 57

\* a < b for Python strings: lexicographic by code point, a proper prefix first
RECURSIVE StrLessFrom(_, _, _)
StrLessFrom(a, b, i) ==
    IF i > Len(b) THEN FALSE
    ELSE IF i > Len(a) THEN TRUE
    ELSE IF SubSeq(a, i, i) = SubSeq(b, i, i) THEN StrLessFrom(a, b, i + 1)
    ELSE Ord(SubSeq(a, i, i)) < Ord(SubSeq(b, i, i))

StrLess(a, b) == StrLessFrom(a, b, 1)

\* the keys in some order that need not be ascending
RECURSIVE MutUnsorted(_)
MutUnsorted(S) ==
    IF S = {} THEN <<>>
    ELSE LET m == CHOOSE x \in S : \A y \in S \ {x} : ~StrLessFrom(x, y, 1)
         IN  <<m>> \o MutUnsorted(S \ {m})

\* sorted(keys)
RECURSIVE Sorted(_)
Sorted(S) ==
    IF S = {} THEN <<>>
    ELSE LET m == CHOOSE x \in S : \A y \in S \ {x} : StrLess(x, y)
         IN  <<m>> \o Sorted(S \ {m})

-----------------------------------------------------------------------------
(* The rankings *)

MutItemsKeyGreaterOrEqual(x, best) == x.items >= best.items

\* key=lambda x: x['items']
ItemsKeyGreater(x, best) == x.items > best.items

\* max(icb_data, key=lambda x: x['items']): the running best is replaced only
\* by a strictly greater key, so the first maximal element is returned
RECURSIVE MaxByItemsFrom(_, _, _)
MaxByItemsFrom(seq, i, best) ==
    IF i > Len(seq) THEN best
    ELSE MaxByItemsFrom(seq, i + 1,
                        IF ItemsKeyGreater(seq[i], best) THEN seq[i] ELSE best)

MaxByItems(seq) == MaxByItemsFrom(seq, 2, seq[1])

\* the loop body of find_top_prescriber_by_month for one date
TopOfDate(sd, date) ==
    IF sd[date] = <<>> THEN <<>>
    ELSE <<  <<date, MaxByItems(sd[date]).org_name>>  >>

RECURSIVE RankUnweightedOver(_, _)
RankUnweightedOver(sd, ds) ==
    IF ds = <<>> THEN <<>>
    ELSE TopOfDate(sd, Head(ds)) \o RankUnweightedOver(sd, Tail(ds))

find_top_prescriber_by_month(sd) == RankUnweightedOver(sd, Sorted(DOMAIN sd))

\* list_sizes.get(date, {}).get(org_id, 0)
ListSizeOf(ls, date, org_id) == Get(Get(ls, date, EmptyDict), org_id, 0)

MutZeroSizeUsable(list_size) == list_size >= 0

\* if list_size > 0
HasUsableSize(list_size) == list_size > 0

\* icb_rates of one date: rate = items / list_size is kept as the exact
\* fraction <<items, list_size>> (a float quotient of counts this small orders
\* as the fractions do)
RECURSIVE IcbRates(_, _, _)
IcbRates(icb_data, ls, date) ==
    IF icb_data = <<>> THEN <<>>
    ELSE LET icb == Head(icb_data)
             list_size == ListSizeOf(ls, date, icb.org_id)
         IN  (IF HasUsableSize(list_size)
              THEN << [org_name |-> icb.org_name,
                       rate |-> <<icb.items, list_size>>] >>
              ELSE <<>>)
             \o IcbRates(Tail(icb_data), ls, date)

\* key=lambda x: x['rate']
RateKeyGreater(x, best) ==
    x.rate[1] * best.rate[2] > best.rate[1] * x.rate[2]

RECURSIVE MaxByRateFrom(_, _, _)
MaxByRateFrom(seq, i, best) ==
    IF i > Len(seq) THEN best
    ELSE MaxByRateFrom(seq, i + 1,
                       IF RateKeyGreater(seq[i], best) THEN seq[i] ELSE best)

MaxByRate(seq) == MaxByRateFrom(seq, 2, seq[1])

\* the loop body of find_top_prescriber_by_month_weighted for one date
TopOfDateWeighted(sd, ls, date) ==
    IF sd[date] = <<>> THEN <<>>
    ELSE LET icb_rates == IcbRates(sd[date], ls, date)
         IN  IF icb_rates = <<>> THEN <<>>
             ELSE <<  <<date, MaxByRate(icb_rates).org_name>>  >>

RECURSIVE RankWeightedOver(_, _, _)
RankWeightedOver(sd, ls, ds) ==
    IF ds = <<>> THEN <<>>
    ELSE TopOfDateWeighted(sd, ls, Head(ds)) \o RankWeightedOver(sd, ls, Tail(ds))

find_top_prescriber_by_month_weighted(sd, ls) ==
    RankWeightedOver(sd, ls, Sorted(DOMAIN sd))

-----------------------------------------------------------------------------
(* The remote API: what a GET can answer *)

\* A GET either raises (the transport fails, the status is an error, or the
\* body is not JSON: requests raises a RequestException for each) or answers
\* a list of objects
Failed == [status |-> "error"]
Ok(data) == [status |-> "ok", data |-> data]

\* sequences over S of length at most n
SeqsUpTo(S, n) == UNION {[1..k -> S] : k \in 0..n}

\* command lines: one well-formed code, and codes of other lengths
BnfCodes == {"0407010H0AAAMAM", "0407010H0AAAMA", "0407010H0AAAMAMX", ""}

\* bnf_code endpoint: objects {id, name}, the name possibly missing
BnfItems(code) ==
    LET ids == {Prefix(code, 9), Prefix(code, 7)}
    IN  {[id |-> c, name |-> "Chemical " \o c] : c \in ids}
          \cup {[id |-> c] : c \in ids}

BnfResponses(code) ==
    {Failed} \cup {Ok(d) : d \in SeqsUpTo(BnfItems(code), MaxBnfItems)}

Dates == {"2023-05-15", "2023-05-20", "2023-06-01"}
\* the dates a spending response of a full run may carry
MainDates == {"2023-05-15", "2023-06-01"}
Orgs == {"QA", "QB"}
OtherOrg == "QX"
OrgName(o) == "ICB " \o o

\* spending_by_org endpoint: objects {date, row_id, row_name, items}, the date
\* and the items possibly missing
SpendingItems(ds, counts) ==
    {[date |-> d, row_id |-> o, row_name |-> OrgName(o), items |-> n]
        : d \in ds, o \in Orgs, n \in counts}
      \cup {[date |-> d, row_id |-> o, row_name |-> OrgName(o)] : d \in ds, o \in Orgs}
      \cup {[row_id |-> o, row_name |-> OrgName(o), items |-> n]
        : o \in Orgs, n \in counts}

\* org_details endpoint: objects {row_id, total_list_size}, the size possibly
\* missing
PopItems(o) ==
    {[row_id |-> o, total_list_size |-> n] : n \in 0..MaxSize} \cup {[row_id |-> o]}

\* at most one object per organization, an organization the spending data
\* never names possibly among them
PopData ==
    {a \o b \o c : a \in {<<>>} \cup {<<x>> : x \in PopItems("QA")},
                   b \in {<<>>} \cup {<<x>> : x \in PopItems("QB")},
                   c \in {<<>>, <<[row_id |-> OtherOrg, total_list_size |-> MaxSize]>>}}

PopResponses == {Failed} \cup {Ok(d) : d \in PopData}

\* what the endpoint may answer in a full run
MainPopResponses ==
    {Failed, Ok(<<[row_id |-> "QA", total_list_size |-> MaxSize], [row_id |-> "QB"]>>)}

-----------------------------------------------------------------------------
(* The resolver, the lookup and the collectors *)

\* for item in data: if item.get('id') == code: return True
RECURSIVE AnyIdEquals(_, _)
AnyIdEquals(data, code) ==
    IF data = <<>> THEN FALSE
    ELSE IF Get(Head(data), "id", None) = code THEN TRUE
    ELSE AnyIdEquals(Tail(data), code)

\* the bare except turns every failure into False
check_code_exists(resp, code) ==
    IF resp.status # "ok" THEN FALSE ELSE AnyIdEquals(resp.data, code)

\* len(bnf_code) != 15
BnfCodeLength == 15

MutAtLeastLength(code) == Len(code) >= BnfCodeLength

ValidLength(code) == Len(code) = BnfCodeLength

ValidationMessage(code) ==
    "BNF code must be exactly 15 characters, got " \o ToString(Len(code))

\* for length in [9, 7]
CandidateLengths == <<9, 7>>

MutDefaultToShortest(code) == Prefix(code, 7)

\* return bnf_code[:9]
DefaultCode(code) == Prefix(code, 9)

Returned(v) == [ok |-> TRUE, value |-> v]
Raised(msg) == [ok |-> FALSE, error |-> msg]

\* for item in data: if item.get('id') == chemical_code: return item.get('name', ...)
RECURSIVE FirstExactName(_, _)
FirstExactName(data, code) ==
    IF data = <<>>
    THEN Raised("Failed to parse API response: No exact match found for chemical code "
                \o code)
    ELSE IF Get(Head(data), "id", None) = code
    THEN Returned(Get(Head(data), "name", "Unknown chemical"))
    ELSE FirstExactName(Tail(data), code)

\* the placeholder instead of the error when no id matches
MutPlaceholderWhenNoMatch(resp, code) ==
    IF resp.status # "ok"
    THEN Raised("Failed to fetch data from API: " \o resp.status)
    ELSE IF FirstExactName(resp.data, code).ok
    THEN FirstExactName(resp.data, code)
    ELSE Returned("Unknown chemical")

get_chemical_name(resp, code) ==
    IF resp.status # "ok"
    THEN Raised("Failed to fetch data from API: " \o resp.status)
    ELSE IF resp.data = <<>>
    THEN Raised("Failed to parse API response: No data found for chemical code " \o code)
    ELSE FirstExactName(resp.data, code)

MutNoneIsADate(date) == date # ""

\* if date:
Truthy(date) == date # None /\ date # ""

Entry(item) ==
    [org_id |-> Get(item, "row_id", None), org_name |-> Get(item, "row_name", None),
     items |-> Get(item, "items", 0), quantity |-> Get(item, "quantity", 0),
     actual_cost |-> Get(item, "actual_cost", 0)]

\* spending_by_date[date].append(...)
AppendAt(sd, date, e) ==
    [d \in DOMAIN sd \cup {date} |->
        IF d = date THEN Append(Get(sd, date, <<>>), e) ELSE sd[d]]

RECURSIVE GroupByDate(_, _)
GroupByDate(data, sd) ==
    IF data = <<>> THEN sd
    ELSE LET item == Head(data)
             date == Get(item, "date", None)
         IN  GroupByDate(Tail(data),
                         IF Truthy(date) THEN AppendAt(sd, date, Entry(item)) ELSE sd)

get_spending_data(resp) ==
    IF resp.status # "ok"
    THEN Raised("Failed to fetch spending data from API: " \o resp.status)
    ELSE Returned(GroupByDate(resp.data, EmptyDict))

\* date[:7]
YearMonth(date) == Prefix(date, 7)

\* list_sizes[date][org_id] = size
SetSize(ls, date, org_id, size) ==
    LET inner == Get(ls, date, EmptyDict)
    IN  [d \in DOMAIN ls \cup {date} |->
            IF d = date
            THEN [o \in DOMAIN inner \cup {org_id} |->
                     IF o = org_id THEN size ELSE inner[o]]
            ELSE ls[d]]

\* item.get('total_list_size', 0)
SizeOfItem(item) == Get(item, "total_list_size", 0)

MutOnlyQueryDate(date, year_month) == StartsWith(date, year_month \o "-01")

\* if date.startswith(year_month)
InMonth(date, year_month) == StartsWith(date, year_month)

\* for date in dates: if date.startswith(year_month): list_sizes[date][org_id] = ...
RECURSIVE StoreForDates(_, _, _, _, _)
StoreForDates(ls, ds, year_month, org_id, size) ==
    IF ds = <<>> THEN ls
    ELSE StoreForDates(IF InMonth(Head(ds), year_month)
                       THEN SetSize(ls, Head(ds), org_id, size) ELSE ls,
                       Tail(ds), year_month, org_id, size)

\* if org_id in org_ids
Wanted(org_id, ids) == org_id \in ids

\* for item in data: ...
RECURSIVE StoreItems(_, _, _, _, _)
StoreItems(ls, data, year_month, ids, ds) ==
    IF data = <<>> THEN ls
    ELSE LET org_id == Get(Head(data), "row_id", None)
         IN  StoreItems(IF Wanted(org_id, ids)
                        THEN StoreForDates(ls, ds, year_month, org_id, SizeOfItem(Head(data)))
                        ELSE ls,
                        Tail(data), year_month, ids, ds)

QueryDate(year_month) == year_month \o "-01"

MutBreakOnFailure(months, year_month, resp) ==
    IF resp.status = "ok" THEN months \ {year_month} ELSE {}

\* the loop goes on to the next month after a success and, by continue, after
\* a failure
MonthsLeft(months, year_month, resp) == months \ {year_month}

WarningLine(year_month, resp) ==
    "Warning: Failed to fetch list sizes for " \o year_month \o ": " \o resp.status

\* unique_months.add(date[:7]) for date in dates
UniqueMonths(ds) == {YearMonth(ds[i]) : i \in DOMAIN ds}

\* list(spending_data.keys()): the keys in insertion order
RECURSIVE KeysInOrder(_, _)
KeysInOrder(data, seen) ==
    IF data = <<>> THEN <<>>
    ELSE LET date == Get(Head(data), "date", None)
         IN  IF Truthy(date) /\ date \notin seen
             THEN <<date>> \o KeysInOrder(Tail(data), seen \cup {date})
             ELSE KeysInOrder(Tail(data), seen)

\* org_ids.add(item['org_id']) for every entry of every date
AllOrgIds(sd) == UNION {{sd[d][i].org_id : i \in DOMAIN sd[d]} : d \in DOMAIN sd}

\* print(f"{date} {icb_name}") for every pair
RECURSIVE ResultLines(_)
ResultLines(res) ==
    IF res = <<>> THEN <<>>
    ELSE <<Head(res)[1] \o " " \o Head(res)[2]>> \o ResultLines(Tail(res))

ErrorLine(msg) == "Error: " \o msg
NoDataLine == "No spending data found for this chemical."

-----------------------------------------------------------------------------
(* The run of main *)

\* what the log keeps of an answer: "error", or whether the data holds an
\* object whose id is the code asked for
BnfOutcome(resp, code) ==
    IF resp.status # "ok" THEN resp.status
    ELSE IF \E i \in DOMAIN resp.data :
                "id" \in DOMAIN resp.data[i] /\ resp.data[i].id = code
    THEN "match" ELSE "no_match"

\* what the log keeps of a spending answer: "error", or whether any object
\* carries a date
SpendingOutcome(resp) ==
    IF resp.status # "ok" THEN resp.status
    ELSE IF \E i \in DOMAIN resp.data :
                "date" \in DOMAIN resp.data[i] /\ resp.data[i].date # ""
    THEN "dated" ELSE "undated"

Call(kind, arg, outcome) == [kind |-> kind, arg |-> arg, outcome |-> outcome]

SpendingResponses ==
    {Failed} \cup {Ok(d) : d \in SeqsUpTo(SpendingItems(MainDates, {1}), MaxRecs)}

\* except Exception as e: print(f"Error: {e}", file=sys.stderr); sys.exit(1)
Fatal(msg) ==
    /\ stderr' = Append(stderr, ErrorLine(msg))
    /\ exit_status' = 1
    /\ pc' = "done"

\* for date, icb_name in top_prescribers: print(...), then main returns
PrintRanking(res) ==
    /\ top_prescribers' = res
    /\ stdout' = stdout \o ResultLines(res)
    /\ exit_status' = 0
    /\ pc' = "done"

\* main up to the first external call: the length check of extract_chemical_code
Validate ==
    /\ pc = "start"
    /\ IF ValidLength(bnf_code)
       THEN /\ candidates' = CandidateLengths
            /\ pc' = "resolve"
            /\ UNCHANGED <<stderr, exit_status>>
       ELSE /\ Fatal(ValidationMessage(bnf_code))
            /\ UNCHANGED candidates
    /\ UNCHANGED <<bnf_code, weighted, chemical_code, calls, spending_data, org_ids,
                   dates, unique_months, list_sizes, population_api, top_prescribers,
                   stdout>>

\* one turn of the loop of extract_chemical_code: one existence check
CheckCodeExists ==
    /\ pc = "resolve"
    /\ candidates # <<>>
    /\ LET code == Prefix(bnf_code, Head(candidates))
       IN  \E resp \in BnfResponses(bnf_code) :
             /\ calls' = Append(calls, Call("exists", code, BnfOutcome(resp, code)))
             /\ IF check_code_exists(resp, code)
                THEN /\ chemical_code' = code
                     /\ candidates' = <<>>
                     /\ pc' = "lookup"
                ELSE IF Tail(candidates) = <<>>
                THEN /\ chemical_code' = DefaultCode(bnf_code)
                     /\ candidates' = <<>>
                     /\ pc' = "lookup"
                ELSE /\ candidates' = Tail(candidates)
                     /\ UNCHANGED <<chemical_code, pc>>
    /\ UNCHANGED <<bnf_code, weighted, spending_data, org_ids, dates, unique_months,
                   list_sizes, population_api, top_prescribers, stdout, stderr,
                   exit_status>>

\* get_chemical_name, print(chemical_name), print()
GetChemicalName ==
    /\ pc = "lookup"
    /\ \E resp \in BnfResponses(bnf_code) :
         LET r == get_chemical_name(resp, chemical_code)
         IN  /\ calls' = Append(calls, Call("name", chemical_code,
                                            BnfOutcome(resp, chemical_code)))
             /\ IF r.ok
                THEN /\ stdout' = stdout \o <<r.value, "">>
                     /\ pc' = "spending"
                     /\ UNCHANGED <<stderr, exit_status>>
                ELSE /\ Fatal(r.error)
                     /\ UNCHANGED stdout
    /\ UNCHANGED <<bnf_code, weighted, candidates, chemical_code, spending_data,
                   org_ids, dates, unique_months, list_sizes, population_api,
                   top_prescribers>>

\* get_spending_data and main up to the next external call or to its end
GetSpendingData ==
    /\ pc = "spending"
    /\ \E resp \in SpendingResponses :
         LET r == get_spending_data(resp)
         IN  /\ calls' = Append(calls, Call("spending", chemical_code, SpendingOutcome(resp)))
             /\ IF ~r.ok
                THEN /\ Fatal(r.error)
                     /\ UNCHANGED <<spending_data, org_ids, dates, unique_months,
                                    top_prescribers, stdout>>
                ELSE /\ spending_data' = r.value
                     /\ IF DOMAIN r.value = {}
                        THEN /\ stdout' = Append(stdout, NoDataLine)
                             /\ exit_status' = 0
                             /\ pc' = "done"
                             /\ UNCHANGED <<org_ids, dates, unique_months,
                                            top_prescribers, stderr>>
                        ELSE IF weighted
                        THEN /\ org_ids' = AllOrgIds(r.value)
                             /\ dates' = KeysInOrder(resp.data, {})
                             /\ unique_months' = UniqueMonths(KeysInOrder(resp.data, {}))
                             /\ pc' = "population"
                             /\ UNCHANGED <<top_prescribers, stdout, stderr, exit_status>>
                        ELSE /\ PrintRanking(find_top_prescriber_by_month(r.value))
                             /\ UNCHANGED <<org_ids, dates, unique_months, stderr>>
    /\ UNCHANGED <<bnf_code, weighted, candidates, chemical_code, list_sizes,
                   population_api>>

\* one turn of the loop of get_icb_list_sizes: the query of one month, in the
\* order the set happens to iterate; after the last, the weighted ranking
PopulationQuery ==
    /\ pc = "population"
    /\ \E year_month \in unique_months :
         LET resp == population_api[year_month]
             ls == IF resp.status = "ok"
                   THEN StoreItems(list_sizes, resp.data, year_month, org_ids, dates)
                   ELSE list_sizes
         IN  /\ calls' = Append(calls, Call("population", QueryDate(year_month),
                                            resp.status))
             /\ list_sizes' = ls
             /\ unique_months' = MonthsLeft(unique_months, year_month, resp)
             /\ IF MonthsLeft(unique_months, year_month, resp) = {}
                THEN /\ PrintRanking(find_top_prescriber_by_month_weighted(spending_data, ls))
                     /\ stderr' = IF resp.status = "ok" THEN stderr
                                  ELSE Append(stderr, WarningLine(year_month, resp))
                ELSE /\ stderr' = IF resp.status = "ok" THEN stderr
                                  ELSE Append(stderr, WarningLine(year_month, resp))
                     /\ UNCHANGED <<top_prescribers, stdout, exit_status, pc>>
    /\ UNCHANGED <<bnf_code, weighted, candidates, chemical_code, spending_data,
                   org_ids, dates, population_api>>

Init ==
    /\ pc = "start"
    /\ bnf_code \in BnfCodes
    /\ weighted \in BOOLEAN
    /\ candidates = <<>>
    /\ chemical_code = None
    /\ calls = <<>>
    /\ spending_data = EmptyDict
    /\ org_ids = {}
    /\ dates = <<>>
    /\ unique_months = {}
    /\ list_sizes = EmptyDict
    /\ population_api \in [{YearMonth(d) : d \in MainDates} -> MainPopResponses]
    /\ top_prescribers = <<>>
    /\ stdout = <<>>
    /\ stderr = <<>>
    /\ exit_status = -1

Next ==
    \/ Validate
    \/ CheckCodeExists
    \/ GetChemicalName
    \/ GetSpendingData
    \/ PopulationQuery

Spec == Init /\ [][Next]_vars

-----------------------------------------------------------------------------
(* The rankings on their own: any spending mapping, any population mapping *)

NewEntry(o, n) ==
    [org_id |-> o, org_name |-> OrgName(o), items |-> n, quantity |-> 0,
     actual_cost |-> 0]

EntryKinds == {NewEntry(o, n) : o \in Orgs, n \in 0..MaxItems}

\* the population sizes of one date: any organizations, any sizes
SizesOfDate == UNION {[os -> 0..MaxSize] : os \in SUBSET Orgs}

\* the date whose entries vary freely; the second date is before or after it
FocusDate == "2023-05-20"

\* a second date: not a key, a key with no entry, or a key with one entry,
\* whose organization has a population there or not
OtherDateKinds == {"absent", "empty", "entry", "entry_with_size"}

RankSpending(f, es, o, kind) ==
    [d \in {f} \cup (IF kind = "absent" THEN {} ELSE {o}) |->
        IF d = f THEN es
        ELSE IF kind = "empty" THEN <<>> ELSE <<NewEntry("QA", 1)>>]

\* a date whose sizes are empty is a key of the mapping or not
RankSizes(f, fs, keep, o, kind) ==
    [d \in (IF DOMAIN fs = {} /\ ~keep THEN {} ELSE {f})
             \cup (IF kind = "entry_with_size" THEN {o} ELSE {}) |->
        IF d = f THEN fs ELSE [x \in {"QA"} |-> 1]]

InitRank ==
    /\ pc = "rank"
    /\ weighted \in BOOLEAN
    /\ \E o \in Dates \ {FocusDate}, es \in SeqsUpTo(EntryKinds, MaxEntries),
          kind \in OtherDateKinds :
         /\ spending_data = RankSpending(FocusDate, es, o, kind)
         /\ IF weighted
            THEN \E fs \in SizesOfDate :
                   \E keep \in (IF DOMAIN fs = {} THEN BOOLEAN ELSE {TRUE}) :
                     list_sizes = RankSizes(FocusDate, fs, keep, o, kind)
            ELSE /\ kind # "entry_with_size"
                 /\ list_sizes = EmptyDict
    /\ bnf_code = None
    /\ candidates = <<>>
    /\ chemical_code = None
    /\ calls = <<>>
    /\ org_ids = {}
    /\ dates = <<>>
    /\ unique_months = {}
    /\ population_api = EmptyDict
    /\ top_prescribers = <<>>
    /\ stdout = <<>>
    /\ stderr = <<>>
    /\ exit_status = -1

RankUnweighted ==
    /\ pc = "rank"
    /\ ~weighted
    /\ top_prescribers' = find_top_prescriber_by_month(spending_data)
    /\ pc' = "ranked"
    /\ UNCHANGED <<bnf_code, weighted, candidates, chemical_code, calls, spending_data,
                   org_ids, dates, unique_months, list_sizes, population_api, stdout,
                   stderr, exit_status>>

RankWeighted ==
    /\ pc = "rank"
    /\ weighted
    /\ top_prescribers' = find_top_prescriber_by_month_weighted(spending_data, list_sizes)
    /\ pc' = "ranked"
    /\ UNCHANGED <<bnf_code, weighted, candidates, chemical_code, calls, spending_data,
                   org_ids, dates, unique_months, list_sizes, population_api, stdout,
                   stderr, exit_status>>

NextRank == RankUnweighted \/ RankWeighted

SpecRank == InitRank /\ [][NextRank]_vars

-----------------------------------------------------------------------------
(* Population collection and the weighted ranking that follows it: a       *)
(* weighted run of main from its call of get_icb_list_sizes, after a        *)
(* spending answer in which every date lists the same organizations         *)

\* every ordering of every non-empty set of dates
DateLists ==
    {ds \in SeqsUpTo(Dates, Cardinality(Dates)) :
        ds # <<>> /\ \A i, j \in DOMAIN ds : i # j => ds[i] # ds[j]}

\* every date lists every organization once
GridSpending(ids, ds) ==
    [d \in {ds[i] : i \in DOMAIN ds} |->
        IF "QA" \in ids
        THEN <<NewEntry("QA", 1)>> \o (IF "QB" \in ids THEN <<NewEntry("QB", MaxItems)>> ELSE <<>>)
        ELSE <<NewEntry("QB", MaxItems)>>]

InitPop ==
    /\ pc = "population"
    /\ weighted = TRUE
    /\ org_ids \in (SUBSET Orgs) \ {{}}
    /\ dates \in DateLists
    /\ spending_data = GridSpending(org_ids, dates)
    /\ unique_months = UniqueMonths(dates)
    /\ population_api \in [UniqueMonths(dates) -> PopResponses]
    /\ list_sizes = EmptyDict
    /\ bnf_code = "0407010H0AAAMAM"
    /\ candidates = <<>>
    /\ chemical_code = "0407010H0"
    /\ calls = <<Call("exists", "0407010H0", "match"), Call("name", "0407010H0", "match"),
                 Call("spending", "0407010H0", "dated")>>
    /\ top_prescribers = <<>>
    /\ stdout = <<"Chemical 0407010H0", "">>
    /\ stderr = <<>>
    /\ exit_status = -1

NextPop == PopulationQuery

SpecPop == InitPop /\ [][NextPop]_vars

-----------------------------------------------------------------------------
(* Properties of the rankings, checked under SpecRank *)

\* the positions of the ranking that name date d
PairsOf(d) == {i \in DOMAIN top_prescribers : top_prescribers[i][1] = d}

\* the first position of es whose item count is the greatest of es
FirstMaxItems(es) ==
    CHOOSE i \in DOMAIN es :
        /\ \A j \in DOMAIN es : es[j].items <= es[i].items
        /\ \A j \in 1..(i - 1) : es[j].items < es[i].items

\* C1: the unweighted ranking holds exactly one pair for each date that has an
\* entry and none for a date with no entry, and the pair names the first
\* entry, in the order of the date's list, whose item count is the date's
\* greatest.
C1_UnweightedFirstMax ==
    (pc = "ranked" /\ ~weighted) =>
        /\ \A d \in DOMAIN spending_data :
             Cardinality(PairsOf(d)) = IF spending_data[d] = <<>> THEN 0 ELSE 1
        /\ \A i \in DOMAIN top_prescribers :
             LET d == top_prescribers[i][1]
             IN  /\ d \in DOMAIN spending_data
                 /\ spending_data[d] # <<>>
                 /\ top_prescribers[i][2]
                      = spending_data[d][FirstMaxItems(spending_data[d])].org_name

\* [A:1, B:2, C:2] on one date yields B, and a date with no entry yields nothing
C1_Witness ==
    /\ pc = "ranked"
    /\ ~weighted
    /\ \E d, e \in DOMAIN spending_data :
         /\ spending_data[e] = <<>>
         /\ Len(spending_data[d]) = 3
         /\ spending_data[d][1].items < spending_data[d][2].items
         /\ spending_data[d][2].items = spending_data[d][3].items
         /\ spending_data[d][2].org_name # spending_data[d][3].org_name
         /\ top_prescribers = << <<d, spending_data[d][2].org_name>> >>

\* the positions of date d's entries whose organization has a known, strictly
\* positive population on d
Considered(d) ==
    {i \in DOMAIN spending_data[d] :
        /\ d \in DOMAIN list_sizes
        /\ spending_data[d][i].org_id \in DOMAIN list_sizes[d]
        /\ list_sizes[d][spending_data[d][i].org_id] > 0}

\* items(i) / population(i) <= items(j) / population(j) on date d
RateAtMost(d, i, j) ==
    spending_data[d][i].items * list_sizes[d][spending_data[d][j].org_id]
      <= spending_data[d][j].items * list_sizes[d][spending_data[d][i].org_id]

FirstMaxRate(d) ==
    CHOOSE i \in Considered(d) :
        /\ \A j \in Considered(d) : RateAtMost(d, j, i)
        /\ \A j \in Considered(d) : j < i => ~RateAtMost(d, i, j)

\* C2: the weighted ranking considers, on each date, only the entries whose
\* organization has a known and strictly positive population on that very
\* date; it names the first of them whose rate items / population is the
\* greatest, and a date with none of them yields no pair, though the
\* unweighted ranking yields one for it when it has an entry.
C2_WeightedFirstMaxRate ==
    (pc = "ranked" /\ weighted) =>
        /\ \A d \in DOMAIN spending_data :
             /\ Cardinality(PairsOf(d)) = IF Considered(d) = {} THEN 0 ELSE 1
             /\ (Considered(d) = {} /\ spending_data[d] # <<>>) =>
                  \E k \in DOMAIN find_top_prescriber_by_month(spending_data) :
                      find_top_prescriber_by_month(spending_data)[k][1] = d
        /\ \A i \in DOMAIN top_prescribers :
             LET d == top_prescribers[i][1]
             IN  /\ d \in DOMAIN spending_data
                 /\ Considered(d) # {}
                 /\ top_prescribers[i][2] = spending_data[d][FirstMaxRate(d)].org_name

\* the entry with the most items has population 0 and is passed over, the
\* entry after it wins with a positive rate, and a second date whose only
\* entry has no population yields nothing
C2_Witness ==
    /\ pc = "ranked"
    /\ weighted
    /\ \E d, e \in DOMAIN spending_data :
         /\ d # e
         /\ Len(spending_data[d]) = 2
         /\ spending_data[d][1].items > spending_data[d][2].items
         /\ spending_data[d][1].org_id # spending_data[d][2].org_id
         /\ d \in DOMAIN list_sizes
         /\ spending_data[d][1].org_id \in DOMAIN list_sizes[d]
         /\ list_sizes[d][spending_data[d][1].org_id] = 0
         /\ Considered(d) = {2}
         /\ spending_data[e] # <<>>
         /\ e \notin DOMAIN list_sizes
         /\ top_prescribers = << <<d, spending_data[d][2].org_name>> >>

\* C3: in both modes the dates of the ranking are strictly increasing in
\* lexicographic order, hence distinct, and each is a key of the spending
\* mapping.
C3_DatesStrictlyIncreasing ==
    pc = "ranked" =>
        /\ \A i \in DOMAIN top_prescribers : top_prescribers[i][1] \in DOMAIN spending_data
        /\ \A i, j \in DOMAIN top_prescribers :
             i < j => StrLess(top_prescribers[i][1], top_prescribers[j][1])

\* a weighted ranking of two dates
C3_Witness ==
    /\ pc = "ranked"
    /\ weighted
    /\ Len(top_prescribers) = 2
    /\ top_prescribers[1][1] = "2023-05-15"
    /\ top_prescribers[2][1] = FocusDate

-----------------------------------------------------------------------------
(* Properties of population collection, checked under SpecPop *)

\* the first 7 characters of a date
MonthOf(d) == SubSeq(d, 1, 7)

Requested == {dates[i] : i \in DOMAIN dates}
Months == {MonthOf(d) : d \in Requested}
Queried == Months \ unique_months
FailedMonths == {m \in Queried : population_api[m].status # "ok"}

\* the positions in the log of the population queries for month m
PopCallsFor(m) ==
    {i \in DOMAIN calls : calls[i].kind = "population" /\ calls[i].arg = m \o "-01"}

PopCalls == {i \in DOMAIN calls : calls[i].kind = "population"}

\* the organizations the answer for month m returns
ReturnedOrgs(m) ==
    {population_api[m].data[k].row_id : k \in DOMAIN population_api[m].data}

SizesAt(d) == IF d \in DOMAIN list_sizes THEN list_sizes[d] ELSE EmptyDict

\* C6: population collection issues exactly one query per distinct year-month
\* of the requested dates, in whatever order; once a month's query has
\* succeeded, every returned organization of org_ids that carries a size has
\* that size recorded against every requested date of the month, two dates of
\* one month have identical entries, and no organization outside org_ids is
\* recorded.
C6_OneQueryPerMonth ==
    /\ \A m \in Months : Cardinality(PopCallsFor(m)) = IF m \in Queried THEN 1 ELSE 0
    /\ Cardinality(PopCalls) = Cardinality(Queried)
    /\ pc = "done" => Queried = Months
    /\ \A d \in Requested :
         (MonthOf(d) \in Queried /\ population_api[MonthOf(d)].status = "ok") =>
             \A k \in DOMAIN population_api[MonthOf(d)].data :
                 LET item == population_api[MonthOf(d)].data[k]
                 IN  (item.row_id \in org_ids /\ "total_list_size" \in DOMAIN item) =>
                         /\ d \in DOMAIN list_sizes
                         /\ item.row_id \in DOMAIN list_sizes[d]
                         /\ list_sizes[d][item.row_id] = item.total_list_size
    /\ \A d1, d2 \in Requested :
         MonthOf(d1) = MonthOf(d2) =>
             /\ d1 \in DOMAIN list_sizes <=> d2 \in DOMAIN list_sizes
             /\ SizesAt(d1) = SizesAt(d2)
    /\ \A d \in DOMAIN list_sizes :
         d \in Requested /\ DOMAIN list_sizes[d] \subseteq org_ids

\* three dates in two months, two queries, and the two dates of May hold the
\* same single entry although the answer also returned other organizations
C6_Witness ==
    /\ pc = "done"
    /\ Requested = Dates
    /\ org_ids = {"QA"}
    /\ Cardinality(PopCalls) = 2
    /\ population_api["2023-05"].status = "ok"
    /\ ReturnedOrgs("2023-05") = {"QA", "QB", OtherOrg}
    /\ DOMAIN list_sizes = {"2023-05-15", "2023-05-20"}
    /\ list_sizes["2023-05-15"] = [o \in {"QA"} |-> MaxSize]
    /\ list_sizes["2023-05-20"] = [o \in {"QA"} |-> MaxSize]

\* C7: a failing monthly query is not fatal: it puts one warning on the
\* diagnostic stream and none on standard output, leaves every requested date
\* of its month without an entry, does not keep the other months from being
\* queried, leaves the entries of the other months those their own answers
\* give, and its dates are missing from the weighted ranking.
C7_FailedMonthSkipped ==
    /\ \A m \in FailedMonths :
         /\ Cardinality({i \in DOMAIN stderr :
               stderr[i] = "Warning: Failed to fetch list sizes for " \o m \o ": error"}) = 1
         /\ \A d \in Requested :
              MonthOf(d) = m =>
                  /\ d \notin DOMAIN list_sizes
                  /\ PairsOf(d) = {}
                  /\ \A i \in DOMAIN stdout : ~StartsWith(stdout[i], d)
    /\ Len(stderr) = Cardinality(FailedMonths)
    /\ \A i \in DOMAIN stdout : ~StartsWith(stdout[i], "Warning")
    /\ \A i \in DOMAIN stderr : ~StartsWith(stderr[i], "Error: ")
    /\ pc = "done" => (Queried = Months /\ exit_status = 0)
    /\ \A d \in Requested :
         (MonthOf(d) \in Queried \ FailedMonths) =>
             DOMAIN SizesAt(d) = ReturnedOrgs(MonthOf(d)) \cap org_ids

\* May fails first, June is still queried and ranked
C7_Witness ==
    /\ pc = "done"
    /\ Requested = Dates
    /\ Len(calls) = 5
    /\ calls[4] = Call("population", "2023-05-01", "error")
    /\ calls[5] = Call("population", "2023-06-01", "ok")
    /\ stderr = <<"Warning: Failed to fetch list sizes for 2023-05: error">>
    /\ DOMAIN list_sizes = {"2023-06-01"}
    /\ Len(top_prescribers) = 1
    /\ top_prescribers[1][1] = "2023-06-01"
    /\ exit_status = 0

\* C8: the population mapping is sparse: every entry it holds is a size the
\* API gave for that organization and that date's month, and a returned
\* organization without a total_list_size gets no entry rather than 0.
C8_UnknownNeverZero ==
    \A d \in DOMAIN list_sizes : \A o \in DOMAIN list_sizes[d] :
        /\ population_api[MonthOf(d)].status = "ok"
        /\ \E k \in DOMAIN population_api[MonthOf(d)].data :
             LET item == population_api[MonthOf(d)].data[k]
             IN  /\ item.row_id = o
                 /\ "total_list_size" \in DOMAIN item
                 /\ list_sizes[d][o] = item.total_list_size

-----------------------------------------------------------------------------
(* Properties of the full run, checked under Spec *)

CallsOf(kind) == {i \in DOMAIN calls : calls[i].kind = kind}

\* the existence checks, in the order they were issued
ExistsCalls == SelectSeq(calls, LAMBDA c : c.kind = "exists")

C5_LengthValidatedFirst ==
    Len(bnf_code) # 15 =>
        /\ calls = <<>>
        /\ chemical_code = None
        /\ stdout = <<>>
        /\ pc # "start" =>
             /\ pc = "done"
             /\ exit_status = 1
             /\ stderr = <<"Error: BNF code must be exactly 15 characters, got "
                             \o ToString(Len(bnf_code))>>

C5_Witness ==
    /\ pc = "done"
    /\ bnf_code = "0407010H0AAAMAMX"
    /\ calls = <<>>
    /\ stderr = <<"Error: BNF code must be exactly 15 characters, got 16">>
    /\ exit_status = 1

\* C9: when the spending answer arrives and carries no date, the run prints
\* the chemical name, a blank line and the no-data line, exits with status 0,
\* writes no error, ranks nothing and issues no population query, weighted or
\* not.
C9_NoSpendingData ==
    \A i \in CallsOf("spending") :
        calls[i].outcome = "undated" =>
            /\ pc = "done"
            /\ exit_status = 0
            /\ Len(stdout) = 3
            /\ stdout[1] \in {"Chemical " \o chemical_code, "Unknown chemical"}
            /\ stdout[2] = ""
            /\ stdout[3] = "No spending data found for this chemical."
            /\ stderr = <<>>
            /\ top_prescribers = <<>>
            /\ i = Len(calls)
            /\ CallsOf("population") = {}

C9_Witness ==
    /\ weighted
    /\ pc = "done"
    /\ Len(calls) = 3
    /\ calls[3].kind = "spending"
    /\ calls[3].outcome = "undated"
    /\ stdout = <<"Chemical 0407010H0", "", "No spending data found for this chemical.">>
    /\ exit_status = 0

KindRank(kind) ==
    CASE kind = "exists" -> 1 [] kind = "name" -> 2 [] kind = "spending" -> 3
      [] kind = "population" -> 4

\* the run has ended on a fatal error: one error line, status 1, no ranking
Aborted ==
    /\ pc = "done"
    /\ exit_status = 1
    /\ Cardinality({i \in DOMAIN stderr : StartsWith(stderr[i], "Error: ")}) = 1
    /\ Len(stderr) = 1
    /\ top_prescribers = <<>>
    /\ Len(stdout) \in {0, 2}

\* the call at position i failed fatally
FatalCall(i) ==
    \/ calls[i].kind = "name" /\ calls[i].outcome # "match"
    \/ calls[i].kind = "spending" /\ calls[i].outcome = "error"

\* C10: the external calls come in the order existence checks (at most 2),
\* one name lookup, one spending query, population queries (weighted mode
\* only), none of them twice; a fatal error (validation, name lookup,
\* spending) ends the run with no later call, no ranking line, one "Error: "
\* line and status 1, so a failed name lookup is never followed by the
\* spending query.
C10_CallOrderAndAbort ==
    /\ \A i, j \in DOMAIN calls :
         i < j => /\ KindRank(calls[i].kind) <= KindRank(calls[j].kind)
                  /\ ~(calls[i].kind = calls[j].kind /\ calls[i].arg = calls[j].arg)
    /\ Cardinality(CallsOf("exists")) <= 2
    /\ Cardinality(CallsOf("name")) <= 1
    /\ Cardinality(CallsOf("spending")) <= 1
    /\ ~weighted => CallsOf("population") = {}
    /\ \A i \in DOMAIN calls : FatalCall(i) => (i = Len(calls) /\ Aborted)
    /\ exit_status = 1 =>
         /\ Aborted
         /\ \/ calls = <<>> /\ Len(bnf_code) # 15
            \/ calls # <<>> /\ FatalCall(Len(calls))
    /\ (pc = "done" /\ exit_status = 0) =>
         /\ Cardinality(CallsOf("name")) = 1
         /\ Cardinality(CallsOf("spending")) = 1
         /\ \A i \in DOMAIN stderr : ~StartsWith(stderr[i], "Error: ")

\* a weighted run with every kind of call: two checks, the lookup, the
\* spending query and two population queries
C10_Witness ==
    /\ weighted
    /\ pc = "done"
    /\ exit_status = 0
    /\ Len(calls) = 6
    /\ calls[1].kind = "exists"
    /\ calls[2].kind = "exists"
    /\ calls[3].kind = "name"
    /\ calls[4].kind = "spending"
    /\ calls[5].kind = "population"
    /\ calls[6].kind = "population"
    /\ Len(top_prescribers) = 1

=============================================================================
